---------------------------- MODULE Spec2Model ----------------------------
(***************************************************************************)
(* Model of MBU_Pull_Term_Data_From_GO_ATS.                                *)
(*                                                                         *)
(*   processes/queue_handler.py : create_sort_key, concurrent_add and its  *)
(*                                inner coroutine add_one                  *)
(*   processes/queue_handler.py : proces_arguments and                     *)
(*                                retrieve_items_for_queue                 *)
(*   processes/process_item.py  : process_item                             *)
(*   helpers/taxonomy.py        : get_taxononmy, insert_into_database      *)
(*   helpers/term_data_handler.py : pull_term_data_from_go_to_sql,         *)
(*                                _get_child_terms,                        *)
(*                                _insert_term_data_to_sql                 *)
(*                                                                         *)
(* Strings are sequences of Unicode code points, so that Python's string   *)
(* comparison (code point by code point) can be computed.  A dict is the   *)
(* sequence of its <<key, value>> pairs in insertion order; a value is     *)
(* tagged "str" or "dict".                                                 *)
(***************************************************************************)
EXTENDS Integers, Sequences, FiniteSets, TLC

(***************************************************************************)
(* Bounds of the model.                                                    *)
(***************************************************************************)
\* concurrent_add, specification Spec
MaxItems == 3
MaxRetries == 3
MaxConcurrency == 2
MaxBaseDelay == 2
\* concurrent_add, specification Spec: the batches given in every input order
OrderItems == 2
OrderRetries == 1
\* concurrent_add, specification FairSpec
LiveItems == 2
LiveRetries == 2
\* get_taxononmy, specification SpecTax
MaxPages == 3
MaxRows == 2
\* pull_term_data_from_go_to_sql, specification SpecTerm: the terms below the
\* start term, and the stand-in for "pageLimit": 2000
MaxTerms == 4
PageLimit == 2
\* retrieve_items_for_queue, specification SpecJobs: the days the clock
\* passes through and the runs made
MaxDays == 2
MaxRuns == 2

VARIABLES
    \* ---- helpers/config.py, read by concurrent_add
    MAX_CONCURRENCY,    \* config.MAX_CONCURRENCY
    MAX_RETRIES,        \* config.MAX_RETRIES
    RETRY_BASE_DELAY,   \* config.RETRY_BASE_DELAY
    \* ---- concurrent_add
    items,              \* the argument: a list of dicts
    sorted_items,       \* sorted(items, key=create_sort_key)
    main,               \* position of concurrent_add: "start", "gather", "done"
    sem,                \* asyncio.Semaphore: its _value
    waiters,            \* asyncio.Semaphore: its FIFO of waiting tasks
    state,              \* per task add_one(i): position in the retry loop
    holds,              \* per task: inside `async with sem`
    attempt,            \* per task: the loop variable `attempt`
    call,               \* per task: the to_thread(workqueue.add_item) call
    backoff,            \* per task: the local `backoff`
    summary,            \* the logged "Summary" line, or NoSummary
    \* ---- get_taxononmy
    credentials,        \* the keys of the argument `credentials`
    tpc,                \* position: "idle", "start", "loop", "insert", "done",
                        \* "aborted" (an except clause ran), "raised"
    next_url,           \* the local next_url (NoUrl for None)
    all_rows,           \* the local all_rows
    requests,           \* the URLs posted so far, in order
    responses,          \* the page responses received so far, in order
    inserted,           \* rows passed to execute_stored_procedure so far
    insert_results,     \* result["success"] of each of these calls
    \* ---- pull_term_data_from_go_to_sql
    hierarchy,          \* the terms the remote holds below the start term
    hpc,                \* position: "idle", "start", "build", "insert",
                        \* "done", "raised" (an exception left the function)
    stack,              \* the frames of _get_child_terms, innermost last
    outstanding,        \* requests posted and not yet answered
    posts,              \* the guid of every request posted, in order
    tree,               \* what the outermost _get_child_terms returned
    istack,             \* the frames of _insert_term_data_to_sql
    executed,           \* sql_data_params of every execute_stored_procedure
    executed_ok,        \* what each of these calls reported as "success"
    \* ---- retrieve_items_for_queue, process_item
    clock,              \* the day datetime.today() falls on
    jpc,                \* position: "idle", "start", "loop", "queued"
    todays_date,        \* the local todays_date
    references,         \* the local references
    data,               \* the local data
    queue,              \* the items the last run returned
    runs,               \* per completed run: its day and its references
    invoked             \* the call process_item made for the last item

qvars == <<MAX_CONCURRENCY, MAX_RETRIES, RETRY_BASE_DELAY, items, sorted_items,
           main, sem, waiters, state, holds, attempt, call, backoff, summary>>
tvars == <<credentials, tpc, next_url, all_rows, requests, responses, inserted,
           insert_results>>
hvars == <<hierarchy, hpc, stack, outstanding, posts, tree, istack, executed,
           executed_ok>>
jvars == <<clock, jpc, todays_date, references, data, queue, runs, invoked>>
vars == <<qvars, tvars, hvars, jvars>>

(***************************************************************************)
(* Strings and dicts.                                                      *)
(***************************************************************************)
Str(s) == [t |-> "str", v |-> s]
Dict(d) == [t |-> "dict", v |-> d]

\* Python's str.__lt__: lexicographic on code points.
StrLess(a, b) ==
    \E k \in 1..(Len(a) + 1) :
        /\ k <= Len(b)
        /\ \A j \in 1..(k - 1) : a[j] = b[j]
        /\ (k = Len(a) + 1 \/ a[k] < b[k])

StrLessEq(a, b) == a = b \/ StrLess(a, b)

RECURSIVE Concat(_)
Concat(ss) == IF ss = <<>> THEN <<>> ELSE Head(ss) \o Concat(Tail(ss))

\* json's string encoder with ensure_ascii=False: only the quote and the
\* backslash (and control characters, which no modelled string holds) are
\* escaped; every other code point is written as it is.
RECURSIVE escaped(_)
escaped(s) ==
    IF s = <<>> THEN <<>>
    ELSE (IF Head(s) = 34 THEN <<92, 34>>
          ELSE IF Head(s) = 92 THEN <<92, 92>>
          ELSE <<Head(s)>>) \o escaped(Tail(s))

py_encode_basestring(s) == <<34>> \o escaped(s) \o <<34>>

\* sorted(dct.items()) inside the encoder when sort_keys is true.
\* sorted(dct.items()) inside the encoder when sort_keys is true: the pair
\* at position k is the one with k-1 smaller keys (a dict's keys are unique).
SortByKey(d) ==
    [k \in 1..Len(d) |->
        d[CHOOSE m \in 1..Len(d) :
              Cardinality({j \in 1..Len(d) : StrLess(d[j][1], d[m][1])}) = k - 1]]

\* json.dumps(x, sort_keys=..., ensure_ascii=False) with the default
\* separators ", " and ": ".  (The members are bound by a quantifier so that
\* TLC computes the sorted dict once.)
RECURSIVE json_dumps(_, _)
RECURSIVE json_members(_, _, _)
json_members(d, k, sort_keys) ==
    IF k > Len(d) THEN <<>>
    ELSE (IF k = 1 THEN <<>> ELSE <<44, 32>>)
         \o py_encode_basestring(d[k][1]) \o <<58, 32>>
         \o json_dumps(d[k][2], sort_keys)
         \o json_members(d, k + 1, sort_keys)

json_dumps(x, sort_keys) ==
    IF x.t = "str" THEN py_encode_basestring(x.v)
    ELSE CHOOSE r \in {<<123>> \o json_members(d, 1, sort_keys) \o <<125>> :
                          d \in {IF sort_keys THEN SortByKey(x.v) ELSE x.v}} : TRUE

create_sort_key_insertion_order(item) == json_dumps(Dict(item), FALSE)

create_sort_key(item) == json_dumps(Dict(item), TRUE)

KeysOf(seq) == [i \in 1..Len(seq) |-> create_sort_key(seq[i])]

\* The position sorted() gives element i: after every element with a
\* smaller key and after the earlier elements with an equal key (stable).
SortedPosition(keys, i) ==
    1 + Cardinality({j \in 1..Len(keys) : StrLess(keys[j], keys[i])})
      + Cardinality({j \in 1..(i - 1) : keys[j] = keys[i]})

\* sorted(seq, key=create_sort_key): stable, ascending.
sorted(seq) ==
    CHOOSE r \in {[p \in 1..Len(seq) |->
                      seq[CHOOSE i \in 1..Len(seq) : SortedPosition(keys, i) = p]] :
                  keys \in {KeysOf(seq)}} : TRUE

(***************************************************************************)
(* The inputs: work items {"reference": ..., "data": {...}} as             *)
(* retrieve_items_for_queue builds them, and the same items built with the *)
(* keys inserted in the opposite order.                                    *)
(***************************************************************************)
K_reference == <<114, 101, 102, 101, 114, 101, 110, 99, 101>>
K_data == <<100, 97, 116, 97>>
K_process == <<112, 114, 111, 99, 101, 115, 115>>
K_caseType == <<99, 97, 115, 101, 84, 121, 112, 101>>
V_taxonomy == <<116, 97, 120, 111, 110, 111, 109, 121>>
V_term == <<116, 101, 114, 109>>
V_borgersager == <<98, 111, 114>>
V_emnesager == <<101, 109, 110>>

\* "r1", "r2", ...: the reference of run type r
RefOf(r) == <<114, 48 + r>>
ProcessOf(r) == IF r % 2 = 1 THEN V_term ELSE V_taxonomy
CaseTypeOf(r) == IF r % 4 \in {2, 3} THEN V_borgersager ELSE V_emnesager

Reverse(seq) == [i \in 1..Len(seq) |-> seq[Len(seq) + 1 - i]]

\* The same dict with every level's keys inserted in the opposite order.
RECURSIVE Reinserted(_)
Reinserted(d) ==
    Reverse([i \in 1..Len(d) |->
                <<d[i][1], IF d[i][2].t = "dict"
                           THEN Dict(Reinserted(d[i][2].v))
                           ELSE d[i][2]>>])

Item(r) ==
    << <<K_reference, Str(RefOf(r))>>,
       <<K_data, Dict(<< <<K_process, Str(ProcessOf(r))>>,
                         <<K_caseType, Str(CaseTypeOf(r))>> >>)>> >>

ItemUniverse(n) == {Item(r) : r \in 1..n} \cup {Reinserted(Item(r)) : r \in 1..n}

reference(it) ==
    LET i == CHOOSE i \in 1..Len(it) : it[i][1] = K_reference IN it[i][2].v

\* Every list of at most n items with pairwise distinct references.
Batches(n) ==
    UNION {{b \in [1..k -> ItemUniverse(n)] :
               \A i, j \in 1..k : i # j => reference(b[i]) # reference(b[j])}
           : k \in 0..n}

\* One list per length: run types n, n-1, ..., 1.
Batch(n) == [i \in 1..n |-> Item(n + 1 - i)]

NoSummary == <<>>
NoUrl == <<>>

(***************************************************************************)
(* concurrent_add                                                          *)
(***************************************************************************)
Tasks == 1..Len(items)

QInit(batches, concurrencies, retries, delays) ==
    /\ MAX_CONCURRENCY \in concurrencies
    /\ MAX_RETRIES \in retries
    /\ RETRY_BASE_DELAY \in delays
    /\ items \in batches
    /\ sorted_items = <<>>
    /\ main = "start"
    /\ sem = MAX_CONCURRENCY
    /\ waiters = <<>>
    /\ state = [i \in 1..Len(items) |-> "Pending"]
    /\ holds = [i \in 1..Len(items) |-> FALSE]
    /\ attempt = [i \in 1..Len(items) |-> 0]
    /\ call = [i \in 1..Len(items) |-> "idle"]
    /\ backoff = [i \in 1..Len(items) |-> 0]
    /\ summary = NoSummary

\* The values of config.RETRY_BASE_DELAY tried, in units of the clock.
BaseDelays == {1, MaxBaseDelay}

TIdle ==
    /\ credentials = {}
    /\ tpc = "idle"
    /\ next_url = NoUrl
    /\ all_rows = <<>>
    /\ requests = <<>>
    /\ responses = <<>>
    /\ inserted = <<>>
    /\ insert_results = <<>>

NoTree == <<>>
NoCall == <<>>

HIdle ==
    /\ hierarchy = <<>>
    /\ hpc = "idle"
    /\ stack = <<>>
    /\ outstanding = 0
    /\ posts = <<>>
    /\ tree = NoTree
    /\ istack = <<>>
    /\ executed = <<>>
    /\ executed_ok = <<>>

JIdle ==
    /\ clock = 1
    /\ jpc = "idle"
    /\ todays_date = <<>>
    /\ references = <<>>
    /\ data = <<>>
    /\ queue = <<>>
    /\ runs = <<>>
    /\ invoked = NoCall

\* Batches of every length under every configuration, and every input
\* order and key-insertion order of the small batches.
Init ==
    /\ \/ QInit({Batch(n) : n \in 0..MaxItems}, 1..MaxConcurrency,
                1..MaxRetries, BaseDelays)
       \/ QInit(Batches(OrderItems), 1..OrderItems, 1..OrderRetries, {1})
    /\ TIdle
    /\ HIdle
    /\ JIdle

\* `if not items: ... return`
ReturnEmpty_fall_through ==
    /\ main = "start"
    /\ items = <<>>
    /\ main' = "gather"
    /\ UNCHANGED <<tvars, hvars, jvars, MAX_CONCURRENCY, MAX_RETRIES, RETRY_BASE_DELAY, items,
                   sorted_items, sem, waiters, state, holds, attempt, call,
                   backoff, summary>>

ReturnEmpty ==
    /\ main = "start"
    /\ items = <<>>
    /\ main' = "done"
    /\ UNCHANGED <<tvars, hvars, jvars, MAX_CONCURRENCY, MAX_RETRIES, RETRY_BASE_DELAY, items,
                   sorted_items, sem, waiters, state, holds, attempt, call,
                   backoff, summary>>

\* sorted_items = sorted(items, key=create_sort_key); gather creates one
\* task per item of sorted_items, in that order.
SortAndGather ==
    /\ main = "start"
    /\ items # <<>>
    /\ sorted_items' = sorted(items)
    /\ main' = "gather"
    /\ UNCHANGED <<tvars, hvars, jvars, MAX_CONCURRENCY, MAX_RETRIES, RETRY_BASE_DELAY, items,
                   sem, waiters, state, holds, attempt, call, backoff, summary>>

InWaiters(i) == \E k \in 1..Len(waiters) : waiters[k] = i

\* Task i has run its first step (it is past, or inside, sem.acquire()).
Started(i) == state[i] # "Pending" \/ holds[i] \/ InWaiters(i)

\* gather creates every task, and so queues every task's first step, before
\* concurrent_add suspends; the event loop runs its ready queue in FIFO
\* order, and the callback that resumes a task after its thread call is
\* queued behind them.  No task resumes from add_item before every task
\* has run its first step.
AllStarted == \A j \in Tasks : Started(j)

\* asyncio.Semaphore.locked()
locked_never == FALSE

locked == sem = 0 \/ waiters # <<>>

\* `for attempt in range(1, MAX_RETRIES + 1)`: iteration k starts with
\* await asyncio.to_thread(workqueue.add_item, data, reference)
BeginAttempt(i, k) ==
    /\ state' = [state EXCEPT ![i] = "Attempting"]
    /\ attempt' = [attempt EXCEPT ![i] = k]
    /\ call' = [call EXCEPT ![i] = "running"]

\* Leaving `async with sem`: sem.release() gives the permit to the first
\* waiter, or back to the pool.
Release_leak(i) ==
    /\ holds' = [holds EXCEPT ![i] = FALSE]
    /\ UNCHANGED <<sem, waiters>>

Release_double(i) ==
    IF waiters # <<>>
    THEN /\ holds' = [holds EXCEPT ![i] = FALSE, ![Head(waiters)] = TRUE]
         /\ waiters' = Tail(waiters)
         /\ sem' = sem + 1
    ELSE /\ holds' = [holds EXCEPT ![i] = FALSE]
         /\ waiters' = waiters
         /\ sem' = sem + 1

Release(i) ==
    IF waiters # <<>>
    THEN /\ holds' = [holds EXCEPT ![i] = FALSE, ![Head(waiters)] = TRUE]
         /\ waiters' = Tail(waiters)
         /\ sem' = sem
    ELSE /\ holds' = [holds EXCEPT ![i] = FALSE]
         /\ waiters' = waiters
         /\ sem' = sem + 1

\* The event loop runs the tasks' first steps in the order gather created
\* them.  `async with sem`: the permit is free, the task takes it and makes
\* its first attempt.
Start(i) ==
    /\ main = "gather"
    /\ ~Started(i)
    /\ \A j \in Tasks : j < i => Started(j)
    /\ ~locked
    /\ sem' = sem - 1
    /\ holds' = [holds EXCEPT ![i] = TRUE]
    /\ BeginAttempt(i, 1)
    /\ UNCHANGED <<tvars, hvars, jvars, MAX_CONCURRENCY, MAX_RETRIES, RETRY_BASE_DELAY, items,
                   sorted_items, main, waiters, backoff, summary>>

\* `async with sem`: no permit is free, the task waits in the FIFO.
Enqueue(i) ==
    /\ main = "gather"
    /\ ~Started(i)
    /\ \A j \in Tasks : j < i => Started(j)
    /\ locked
    /\ waiters' = Append(waiters, i)
    /\ UNCHANGED <<tvars, hvars, jvars, MAX_CONCURRENCY, MAX_RETRIES, RETRY_BASE_DELAY, items,
                   sorted_items, main, sem, state, holds, attempt, call,
                   backoff, summary>>

\* A woken waiter resumes inside `async with sem` and makes its first
\* attempt.  Woken tasks resume in the order they were woken (the event
\* loop's ready queue is FIFO), which is the order of their indices.
Acquired(i) ==
    /\ main = "gather"
    /\ state[i] = "Pending"
    /\ holds[i]
    /\ \A j \in Tasks : j < i => ~(state[j] = "Pending" /\ holds[j])
    /\ BeginAttempt(i, 1)
    /\ UNCHANGED <<tvars, hvars, jvars, MAX_CONCURRENCY, MAX_RETRIES, RETRY_BASE_DELAY, items,
                   sorted_items, main, sem, waiters, holds, backoff, summary>>

\* workqueue.add_item returns, or raises, in its thread.
ThreadReturn(i) ==
    /\ call[i] = "running"
    /\ \E outcome \in {"returned", "raised"} :
           call' = [call EXCEPT ![i] = outcome]
    /\ UNCHANGED <<tvars, hvars, jvars, MAX_CONCURRENCY, MAX_RETRIES, RETRY_BASE_DELAY, items,
                   sorted_items, main, sem, waiters, state, holds, attempt,
                   backoff, summary>>

\* The task resumes after a call that returned: `return True`.
OnSuccess_no_return(i) ==
    /\ AllStarted
    /\ state[i] = "Attempting"
    /\ call[i] = "returned"
    /\ attempt[i] < MAX_RETRIES
    /\ BeginAttempt(i, attempt[i] + 1)
    /\ UNCHANGED <<tvars, hvars, jvars, MAX_CONCURRENCY, MAX_RETRIES, RETRY_BASE_DELAY, items,
                   sorted_items, main, sem, waiters, holds, backoff, summary>>

OnSuccess(i) ==
    /\ AllStarted
    /\ state[i] = "Attempting"
    /\ call[i] = "returned"
    /\ state' = [state EXCEPT ![i] = "Succeeded"]
    /\ call' = [call EXCEPT ![i] = "idle"]
    /\ Release(i)
    /\ UNCHANGED <<tvars, hvars, jvars, MAX_CONCURRENCY, MAX_RETRIES, RETRY_BASE_DELAY, items,
                   sorted_items, main, attempt, backoff, summary>>

\* `if attempt >= config.MAX_RETRIES`
retries_exhausted_off_by_one(a) == a > MAX_RETRIES

retries_exhausted(a) == a >= MAX_RETRIES

\* `backoff = config.RETRY_BASE_DELAY * (2 ** (attempt - 1))`
backoff_delay_off_by_one(a) == RETRY_BASE_DELAY * (2 ^ a)

backoff_delay(a) == RETRY_BASE_DELAY * (2 ^ (a - 1))

\* The task resumes after a call that raised, on its last attempt:
\* logger.error(...); return False
OnFinalFailure(i) ==
    /\ AllStarted
    /\ state[i] = "Attempting"
    /\ call[i] = "raised"
    /\ retries_exhausted(attempt[i])
    /\ state' = [state EXCEPT ![i] = "Failed"]
    /\ call' = [call EXCEPT ![i] = "idle"]
    /\ Release(i)
    /\ UNCHANGED <<tvars, hvars, jvars, MAX_CONCURRENCY, MAX_RETRIES, RETRY_BASE_DELAY, items,
                   sorted_items, main, attempt, backoff, summary>>

\* The task resumes after a call that raised, with attempts left:
\* it computes backoff and enters asyncio.sleep(backoff), still inside
\* `async with sem`.
OnFailure(i) ==
    /\ AllStarted
    /\ state[i] = "Attempting"
    /\ call[i] = "raised"
    /\ ~retries_exhausted(attempt[i])
    /\ backoff' = [backoff EXCEPT ![i] = backoff_delay(attempt[i])]
    /\ state' = [state EXCEPT ![i] = "Retrying"]
    /\ call' = [call EXCEPT ![i] = "idle"]
    /\ UNCHANGED <<tvars, hvars, jvars, MAX_CONCURRENCY, MAX_RETRIES, RETRY_BASE_DELAY, items,
                   sorted_items, main, sem, waiters, holds, attempt, summary>>

\* asyncio.sleep(backoff) returns: the next iteration of the for loop, or,
\* were range(1, MAX_RETRIES + 1) used up, the end of add_one (it returns
\* None, which gather's caller counts as a failure).
WakeUp(i) ==
    /\ state[i] = "Retrying"
    /\ IF attempt[i] + 1 <= MAX_RETRIES
       THEN /\ BeginAttempt(i, attempt[i] + 1)
            /\ UNCHANGED <<sem, waiters, holds>>
       ELSE /\ state' = [state EXCEPT ![i] = "Failed"]
            /\ UNCHANGED <<attempt, call>>
            /\ Release(i)
    /\ UNCHANGED <<tvars, hvars, jvars, MAX_CONCURRENCY, MAX_RETRIES, RETRY_BASE_DELAY, items,
                   sorted_items, main, backoff, summary>>

\* What add_one returned, per task: True, or False/None.
results == [i \in Tasks |-> state[i] = "Succeeded"]

\* asyncio.gather's future is done when every task is.
gather_done_early == \E i \in Tasks : state[i] \in {"Succeeded", "Failed"}

gather_done == \A i \in Tasks : state[i] \in {"Succeeded", "Failed"}

\* successes = sum(1 for r in results if r)
successes_of(res) == Cardinality({i \in DOMAIN res : res[i]})

\* results = await asyncio.gather(...); the "Summary" log line.
Summarise ==
    /\ main = "gather"
    /\ gather_done
    /\ LET successes == successes_of(results)
           failures == Len(results) - successes
       IN  summary' = <<successes, failures, Len(results)>>
    /\ main' = "done"
    /\ UNCHANGED <<tvars, hvars, jvars, MAX_CONCURRENCY, MAX_RETRIES, RETRY_BASE_DELAY, items,
                   sorted_items, sem, waiters, state, holds, attempt, call,
                   backoff>>

Next ==
    \/ ReturnEmpty
    \/ SortAndGather
    \/ \E i \in Tasks : Start(i)
    \/ \E i \in Tasks : Enqueue(i)
    \/ \E i \in Tasks : Acquired(i)
    \/ \E i \in Tasks : ThreadReturn(i)
    \/ \E i \in Tasks : OnSuccess(i)
    \/ \E i \in Tasks : OnFailure(i)
    \/ \E i \in Tasks : OnFinalFailure(i)
    \/ \E i \in Tasks : WakeUp(i)
    \/ Summarise

Spec == Init /\ [][Next]_vars


\* The event loop runs every ready task, every add_item call returns or
\* raises, every sleep ends: some enabled step is always taken.
FairInit ==
    /\ QInit({Batch(n) : n \in 0..LiveItems}, 1..LiveItems, 1..LiveRetries,
             BaseDelays)
    /\ TIdle
    /\ HIdle
    /\ JIdle

FairSpec == FairInit /\ [][Next]_vars /\ WF_vars(Next)

(***************************************************************************)
(* get_taxononmy: the paginated fetch loop                                 *)
(***************************************************************************)
\* base_url + endpoint + <query>
Url(query) == <<"base_url", "endpoint", query>>

\* base_url + f"{endpoint}?Paged=TRUE&p_ID=0&PageFirstRow=31&View={view_id}"
full_url == Url("?Paged=TRUE&p_ID=0&PageFirstRow=31&View=view_id")

Cursors == {"?Paged=TRUE&p_ID=30", "?Paged=TRUE&p_ID=60"}

\* What the remote may answer to request number p: a JSON object with or
\* without "Row" (at most MaxRows rows) and with or without "NextHref".
\* The remote holds finitely many pages: answer MaxPages carries no NextHref.
PageResponses(p) ==
    {[keys |-> ks,
      Row |-> IF "Row" \in ks THEN [j \in 1..n |-> <<p, j>>] ELSE <<>>,
      NextHref |-> IF "NextHref" \in ks THEN c ELSE ""] :
        ks \in SUBSET {"Row", "NextHref"}, n \in 0..MaxRows, c \in Cursors}

QIdle == QInit({<<>>}, {1}, {1}, {1})

\* The keys get_taxononmy reads from `credentials`.
CredentialKeys == {"go_api_username", "go_api_password", "sql_conn_string"}

\* The call get_taxononmy(credentials, case_type, view_id, base_url), with
\* any of the keys present in `credentials`, up to `all_rows = []`.
TaxInit ==
    /\ QIdle
    /\ HIdle
    /\ JIdle
    /\ credentials \in SUBSET CredentialKeys
    /\ tpc = "start"
    /\ next_url = NoUrl
    /\ all_rows = <<>>
    /\ requests = <<>>
    /\ responses = <<>>
    /\ inserted = <<>>
    /\ insert_results = <<>>

\* The keys read by HttpNtlmAuth(credentials['go_api_username'],
\* credentials['go_api_password']), which stands before the `try`.
session_keys == {"go_api_username", "go_api_password"}

\* requests.Session(), session.auth = ..., all_rows = [], next_url =
\* full_url.  A key missing here raises KeyError outside the `try`: it
\* leaves get_taxononmy.
TaxSession ==
    /\ tpc = "start"
    /\ IF session_keys \subseteq credentials
       THEN /\ tpc' = "loop"
            /\ next_url' = full_url
       ELSE /\ tpc' = "raised"
            /\ UNCHANGED next_url
    /\ UNCHANGED <<qvars, hvars, jvars, credentials, all_rows, requests, responses, inserted,
                   insert_results>>

\* `if "NextHref" in json_data`
has_next_short_page(json_data) == Len(json_data.Row) = MaxRows

has_next(json_data) == "NextHref" \in json_data.keys

\* One iteration of `while next_url:` whose fetch_data succeeds.
TaxFetchPage ==
    /\ tpc = "loop"
    /\ next_url # NoUrl
    /\ \E json_data \in PageResponses(Len(requests) + 1) :
         /\ Len(requests) + 1 = MaxPages => "NextHref" \notin json_data.keys
         /\ requests' = Append(requests, next_url)
         /\ responses' = Append(responses, json_data)
         /\ all_rows' = IF "Row" \in json_data.keys
                        THEN all_rows \o json_data.Row
                        ELSE all_rows
         /\ next_url' = IF has_next(json_data)
                        THEN Url(json_data.NextHref)
                        ELSE NoUrl
    /\ UNCHANGED <<qvars, hvars, jvars, credentials, tpc, inserted, insert_results>>

\* One iteration whose fetch_data raises (response not ok, or a body that
\* is not JSON): the except clauses print and get_taxononmy returns.
TaxFetchFail ==
    /\ tpc = "loop"
    /\ next_url # NoUrl
    /\ requests' = Append(requests, next_url)
    /\ tpc' = "aborted"
    /\ UNCHANGED <<qvars, hvars, jvars, credentials, next_url, all_rows, responses, inserted,
                   insert_results>>

\* The loop ends; insert_into_database(credentials['sql_conn_string'], ...,
\* all_rows, case_type) is called.  A missing key raises KeyError inside
\* the `try`, before insert_into_database is entered.
TaxInsert ==
    /\ tpc = "loop"
    /\ next_url = NoUrl
    /\ tpc' = IF "sql_conn_string" \in credentials THEN "insert" ELSE "aborted"
    /\ UNCHANGED <<qvars, hvars, jvars, credentials, next_url, all_rows, requests, responses,
                   inserted, insert_results>>

\* insert_into_database: `for item in data`, the rows still to visit after
\* the call for one row returned `success`.
rows_left_stop_on_failure(rows, done, success) ==
    IF success THEN Len(rows) - Len(done) ELSE 0

rows_left(rows, done, success) == Len(rows) - Len(done)

\* One iteration of `for item in data`: execute_stored_procedure is called
\* for the item and reports success or failure; a failure is printed.
TaxUpsert ==
    /\ tpc = "insert"
    /\ Len(inserted) < Len(all_rows)
    /\ \E success \in BOOLEAN :
         /\ inserted' = Append(inserted, all_rows[Len(inserted) + 1])
         /\ insert_results' = Append(insert_results, success)
         /\ tpc' = IF rows_left(all_rows, inserted', success) > 0
                   THEN "insert" ELSE "done"
    /\ UNCHANGED <<qvars, hvars, jvars, credentials, next_url, all_rows, requests, responses>>

\* insert_into_database with no rows.
TaxInsertNothing ==
    /\ tpc = "insert"
    /\ all_rows = <<>>
    /\ tpc' = "done"
    /\ UNCHANGED <<qvars, hvars, jvars, credentials, next_url, all_rows, requests, responses,
                   inserted, insert_results>>

TaxNext ==
    \/ TaxSession
    \/ TaxFetchPage
    \/ TaxFetchFail
    \/ TaxInsert
    \/ TaxUpsert
    \/ TaxInsertNothing

SpecTax == TaxInit /\ [][TaxNext]_vars

(***************************************************************************)
(* pull_term_data_from_go_to_sql: _get_child_terms builds the tree,        *)
(* _insert_term_data_to_sql stores it                                      *)
(***************************************************************************)
\* Strings are sequences of code points: "t<i>", "n<i>", "s", "None".
TermId(i) == <<116, 48 + i>>
TermName(i) == <<110, 48 + i>>
start_term_id == TermId(0)
term_set_uuid == <<115>>
str_None == <<78, 111, 110, 101>>

\* The remote's terms 1..n below the start term 0: the parent of each, the
\* order in which the API lists children (by rising or by falling id), and
\* one record, `odd`, that comes without one of its keys (0: none does).
Parents(n) == {p \in [1..n -> 0..n] : \A i \in 1..n : p[i] < i}

\* Every shape in both orders, and every shape with each record as the odd
\* one.
Hierarchies ==
    UNION {{[parent |-> p, falling |-> f, odd |-> 0] :
               p \in Parents(n), f \in BOOLEAN}
           \cup {[parent |-> p, falling |-> FALSE, odd |-> o] :
                    p \in Parents(n), o \in 1..n} : n \in 0..MaxTerms}

\* The children the remote holds for term p, in the order of the API.
RemoteChildren(h, p) ==
    LET kids == {i \in 1..Len(h.parent) : h.parent[i] = p}
        rising == [r \in 1..Cardinality(kids) |->
                     CHOOSE i \in kids : Cardinality({j \in kids : j < i}) = r - 1]
    IN IF h.falling THEN Reverse(rising) ELSE rising

\* The record { Nm, Id, Cc } of term i in a response.
Record(h, i) ==
    LET full == [Nm |-> TermName(i), Id |-> TermId(i),
                 Cc |-> Len(RemoteChildren(h, i))]
        lacking == IF h.odd # i THEN {}
                   ELSE IF i % 3 = 0 THEN {"Id"}
                   ELSE IF i % 3 = 1 THEN {"Nm"} ELSE {"Cc"}
    IN [key \in {"Nm", "Id", "Cc"} \ lacking |-> full[key]]

NodeOf(guid) == CHOOSE i \in 0..(MaxTerms + 1) : TermId(i) = guid

\* json_data["d"]["Content"] of the answer to one request for the children
\* of `guid`: the body asks for "pageLimit" records, so the answer holds the
\* first PageLimit children.
Content(h, guid) ==
    LET kids == RemoteChildren(h, NodeOf(guid))
    IN [r \in 1..(IF Len(kids) < PageLimit THEN Len(kids) ELSE PageLimit) |->
          Record(h, kids[r])]

\* A call of _get_child_terms(..., parent_uuid, ...) about to post.
Frame(parent_uuid) ==
    [parent_uuid |-> parent_uuid, pc |-> "post", content |-> <<>>, k |-> 1,
     Children |-> <<>>]

TermInit ==
    /\ QIdle
    /\ TIdle
    /\ JIdle
    /\ hierarchy \in Hierarchies
    /\ hpc = "start"
    /\ stack = <<>>
    /\ outstanding = 0
    /\ posts = <<>>
    /\ tree = NoTree
    /\ istack = <<>>
    /\ executed = <<>>
    /\ executed_ok = <<>>

\* api_client.get_form_digest(url_form_digest); `if form_digest_value:`
\* then the call of _get_child_terms for start_term_id.
TermDigest ==
    /\ hpc = "start"
    /\ \E form_digest_value \in BOOLEAN :
         IF form_digest_value
         THEN /\ hpc' = "build"
              /\ stack' = <<Frame(start_term_id)>>
         ELSE /\ hpc' = "done"
              /\ UNCHANGED stack
    /\ UNCHANGED <<qvars, tvars, jvars, hierarchy, outstanding, posts, tree,
                   istack, executed, executed_ok>>

Top == stack[Len(stack)]
WithTop(f) == [stack EXCEPT ![Len(stack)] = f]

\* api_client.post_data(url, headers, body): the request leaves.
TermPost ==
    /\ hpc = "build"
    /\ Top.pc = "post"
    /\ posts' = Append(posts, Top.parent_uuid)
    /\ outstanding' = outstanding + 1
    /\ stack' = WithTop([Top EXCEPT !.pc = "wait"])
    /\ UNCHANGED <<qvars, tvars, jvars, hierarchy, hpc, tree, istack, executed,
                   executed_ok>>

\* The answer carries d.Content: `content = json_data["d"]["Content"]`,
\* `result = {"Id": parent_uuid, "Children": []}`.
TermResponse ==
    /\ hpc = "build"
    /\ Top.pc = "wait"
    /\ outstanding' = outstanding - 1
    /\ stack' = WithTop([Top EXCEPT !.pc = "loop",
                              !.content = Content(hierarchy, Top.parent_uuid)])
    /\ UNCHANGED <<qvars, tvars, jvars, hierarchy, hpc, posts, tree, istack,
                   executed, executed_ok>>

\* post_data caught a RequestException and returned None, or the answer has
\* no d.Content: _get_child_terms returns None.  The outermost call hands
\* None to _insert_term_data_to_sql, which does nothing.  An inner call
\* returns to `_get_child_terms(...)["Children"]`, which raises TypeError:
\* no caller catches it.
TermNoContent ==
    /\ hpc = "build"
    /\ Top.pc = "wait"
    /\ outstanding' = outstanding - 1
    /\ hpc' = IF Len(stack) = 1 THEN "done" ELSE "raised"
    /\ stack' = <<>>
    /\ UNCHANGED <<qvars, tvars, jvars, hierarchy, posts, tree, istack,
                   executed, executed_ok>>

\* `if node_name and node_id`
accepted(node) ==
    /\ "Nm" \in DOMAIN node /\ node.Nm # <<>>
    /\ "Id" \in DOMAIN node /\ node.Id # <<>>

\* `if node.get("Cc", 0) > 0`
has_children_always(node) == TRUE

has_children(node) == (IF "Cc" \in DOMAIN node THEN node.Cc ELSE 0) > 0

\* child = {"Name": node_name, "Id": node_id, "ParentId": parent_uuid}
child_of(node, parent_uuid) ==
    [Name |-> node.Nm, Id |-> node.Id, ParentId |-> parent_uuid]

\* One iteration of `for node in content` that makes no recursive call.
TermIterate ==
    /\ hpc = "build"
    /\ Top.pc = "loop"
    /\ Top.k <= Len(Top.content)
    /\ LET node == Top.content[Top.k]
       IN /\ ~(accepted(node) /\ has_children(node))
          /\ stack' = WithTop(
               [Top EXCEPT !.k = @ + 1,
                           !.Children =
                              IF accepted(node)
                              THEN Append(@, child_of(node, Top.parent_uuid))
                              ELSE @])
    /\ UNCHANGED <<qvars, tvars, jvars, hierarchy, hpc, outstanding, posts,
                   tree, istack, executed, executed_ok>>

\* The iteration reaches `_get_child_terms(api_client, headers, node_id, ...)`.
TermRecurse ==
    /\ hpc = "build"
    /\ Top.pc = "loop"
    /\ Top.k <= Len(Top.content)
    /\ LET node == Top.content[Top.k]
       IN /\ accepted(node) /\ has_children(node)
          /\ stack' = Append(stack, Frame(node.Id))
    /\ UNCHANGED <<qvars, tvars, jvars, hierarchy, hpc, outstanding, posts,
                   tree, istack, executed, executed_ok>>

\* `return result` of an inner call: child["Children"] = result["Children"],
\* result["Children"].append(child) in the caller.
TermReturn ==
    /\ hpc = "build"
    /\ Len(stack) > 1
    /\ Top.pc = "loop"
    /\ Top.k > Len(Top.content)
    /\ LET caller == stack[Len(stack) - 1]
           child == child_of(caller.content[caller.k], caller.parent_uuid)
                    @@ ("Children" :> Top.Children)
       IN stack' = Append(SubSeq(stack, 1, Len(stack) - 2),
                          [caller EXCEPT !.k = @ + 1,
                                         !.Children = Append(@, child)])
    /\ UNCHANGED <<qvars, tvars, jvars, hierarchy, hpc, outstanding, posts,
                   tree, istack, executed, executed_ok>>

\* `return result` of the outermost call, and the call of
\* _insert_term_data_to_sql(result, ...).
TermBuilt ==
    /\ hpc = "build"
    /\ Len(stack) = 1
    /\ Top.pc = "loop"
    /\ Top.k > Len(Top.content)
    /\ tree' = [Id |-> Top.parent_uuid, Children |-> Top.Children]
    /\ istack' = <<[node |-> tree', k |-> 0]>>
    /\ stack' = <<>>
    /\ hpc' = "insert"
    /\ UNCHANGED <<qvars, tvars, jvars, hierarchy, outstanding, posts, executed,
                   executed_ok>>

\* f"{data.get(key)}"
fstr_get(node, key) == IF key \in DOMAIN node THEN node[key] ELSE str_None

sql_data_params(node) ==
    [name |-> fstr_get(node, "Name"),
     uuid |-> fstr_get(node, "Id"),
     parent_uuid |-> fstr_get(node, "ParentId"),
     term_set_uuid |-> term_set_uuid]

\* data.get("Children", [])
children_of_reversed(node) ==
    IF "Children" \in DOMAIN node THEN Reverse(node.Children) ELSE <<>>

children_of(node) == IF "Children" \in DOMAIN node THEN node.Children ELSE <<>>

ITop == istack[Len(istack)]

\* execute_stored_procedure(sql_conn_string, ..., sql_data_params): what it
\* reports is not read.
TermExecute ==
    /\ hpc = "insert"
    /\ ITop.k = 0
    /\ executed' = Append(executed, sql_data_params(ITop.node))
    /\ \E success \in BOOLEAN : executed_ok' = Append(executed_ok, success)
    /\ istack' = [istack EXCEPT ![Len(istack)].k = 1]
    /\ UNCHANGED <<qvars, tvars, jvars, hierarchy, hpc, stack, outstanding,
                   posts, tree>>

\* One iteration of `for child in data.get("Children", [])`: the call
\* _insert_term_data_to_sql(child, ...).
TermInsertChild ==
    /\ hpc = "insert"
    /\ ITop.k >= 1
    /\ ITop.k <= Len(children_of(ITop.node))
    /\ istack' = Append([istack EXCEPT ![Len(istack)].k = @ + 1],
                        [node |-> children_of(ITop.node)[ITop.k], k |-> 0])
    /\ UNCHANGED <<qvars, tvars, jvars, hierarchy, hpc, stack, outstanding,
                   posts, tree, executed, executed_ok>>

\* The loop over the children ends: the call returns.
TermInsertReturn ==
    /\ hpc = "insert"
    /\ ITop.k > Len(children_of(ITop.node))
    /\ istack' = SubSeq(istack, 1, Len(istack) - 1)
    /\ hpc' = IF Len(istack) = 1 THEN "done" ELSE "insert"
    /\ UNCHANGED <<qvars, tvars, jvars, hierarchy, stack, outstanding, posts,
                   tree, executed, executed_ok>>

TermNext ==
    \/ TermDigest
    \/ TermPost
    \/ TermResponse
    \/ TermNoContent
    \/ TermIterate
    \/ TermRecurse
    \/ TermReturn
    \/ TermBuilt
    \/ TermExecute
    \/ TermInsertChild
    \/ TermInsertReturn

SpecTerm == TermInit /\ [][TermNext]_vars

(***************************************************************************)
(* process_item: one item is pulled, by get_taxononmy when its process is  *)
(* "taxonomy" and by pull_term_data_from_go_to_sql when it is "term"       *)
(***************************************************************************)
PullInit == TaxInit \/ TermInit

PullNext == TaxNext \/ TermNext

SpecPull == PullInit /\ [][PullNext]_vars

(***************************************************************************)
(* proces_arguments, retrieve_items_for_queue and the arguments            *)
(* process_item passes on                                                  *)
(***************************************************************************)
\* "go_pull_taxonomy_data_bor"
go_pull_taxonomy_data_bor ==
    <<103, 111, 95, 112, 117, 108, 108, 95, 116, 97, 120, 111, 110, 111,
      109, 121, 95, 100, 97, 116, 97, 95, 98, 111, 114>>

\* "go_pull_taxonomy_data_emn"
go_pull_taxonomy_data_emn ==
    <<103, 111, 95, 112, 117, 108, 108, 95, 116, 97, 120, 111, 110, 111,
      109, 121, 95, 100, 97, 116, 97, 95, 101, 109, 110>>

\* "go_pull_term_data_case_profile_bor"
go_pull_term_data_case_profile_bor ==
    <<103, 111, 95, 112, 117, 108, 108, 95, 116, 101, 114, 109, 95, 100,
      97, 116, 97, 95, 99, 97, 115, 101, 95, 112, 114, 111, 102, 105,
      108, 101, 95, 98, 111, 114>>

\* "go_pull_term_data_case_profile_emn"
go_pull_term_data_case_profile_emn ==
    <<103, 111, 95, 112, 117, 108, 108, 95, 116, 101, 114, 109, 95, 100,
      97, 116, 97, 95, 99, 97, 115, 101, 95, 112, 114, 111, 102, 105,
      108, 101, 95, 101, 109, 110>>

\* "go_pull_term_data_departments"
go_pull_term_data_departments ==
    <<103, 111, 95, 112, 117, 108, 108, 95, 116, 101, 114, 109, 95, 100,
      97, 116, 97, 95, 100, 101, 112, 97, 114, 116, 109, 101, 110, 116,
      115>>

\* The table, in the order of the dict: <<run_type, proc_args>>.
proces_arguments ==
    << <<go_pull_taxonomy_data_bor,
         [process |-> "taxonomy",
          baseUrl |-> "https://ad.go.aarhuskommune.dk",
          caseType |-> "borgersager",
          viewId |-> "f8f14409-e2f6-452f-aeac-acc18b3e6b5c"]>>,
       <<go_pull_taxonomy_data_emn,
         [process |-> "taxonomy",
          baseUrl |-> "https://ad.go.aarhuskommune.dk",
          caseType |-> "emnesager",
          viewId |-> "db7f8be3-a3cb-4ea2-b495-7eba638f3fc7"]>>,
       <<go_pull_term_data_case_profile_bor,
         [process |-> "term",
          baseUrl |-> "https://ad.go.aarhuskommune.dk",
          caseType |-> "borgersager",
          storedProcedure |-> "GO_CaseProfiles_Insert",
          objectType |-> "case profiles",
          startTermId |-> "dc87e41a-cab3-4286-8a1b-72ba6368cb90",
          termSetUuid |-> "8adfc3ee-428f-47fb-80aa-c285c28d3d93"]>>,
       <<go_pull_term_data_case_profile_emn,
         [process |-> "term",
          baseUrl |-> "https://ad.go.aarhuskommune.dk",
          caseType |-> "emnesager",
          storedProcedure |-> "GO_CaseProfiles_Insert",
          objectType |-> "case profiles",
          startTermId |-> "9cd80176-977f-4d4b-9073-7bfb9361afe0",
          termSetUuid |-> "b52da1e5-209d-4ed6-b923-6d590072aa49"]>>,
       <<go_pull_term_data_departments,
         [process |-> "term",
          baseUrl |-> "https://ad.go.aarhuskommune.dk",
          caseType |-> "emnesager",
          storedProcedure |-> "GO_Departments_Insert",
          objectType |-> "departments",
          startTermId |-> "3239f2cb-1cac-4f10-8897-39d64127a2e2",
          termSetUuid |-> "62c5a7cc-eb6f-4704-a86f-c576c4bebcca"]>> >>

\* date.isoformat() of day `d` of the month the clock is in: "2026-11-dd".
isoformat(d) ==
    <<50, 48, 50, 54, 45, 49, 49, 45, 48 + (d \div 10), 48 + (d % 10)>>

\* f"{todays_date}_{run_type}"
reference_without_run_type(date, run_type) == date \o <<95>>

reference_of(date, run_type) == date \o <<95>> \o run_type

JobsInit ==
    /\ QIdle
    /\ TIdle
    /\ HIdle
    /\ clock = 1
    /\ jpc = "start"
    /\ todays_date = <<>>
    /\ references = <<>>
    /\ data = <<>>
    /\ queue = <<>>
    /\ runs = <<>>
    /\ invoked = NoCall

\* Midnight passes.
Tick ==
    /\ clock < MaxDays
    /\ clock' = clock + 1
    /\ UNCHANGED <<qvars, tvars, hvars, jpc, todays_date, references, data,
                   queue, runs, invoked>>

\* data = [], references = [],
\* todays_date = datetime.today().date().isoformat()
ReadDate ==
    /\ jpc = "start"
    /\ todays_date' = isoformat(clock)
    /\ references' = <<>>
    /\ data' = <<>>
    /\ runs' = Append(runs, [day |-> clock, references |-> <<>>, returned |-> FALSE])
    /\ jpc' = "loop"
    /\ UNCHANGED <<qvars, tvars, hvars, clock, queue, invoked>>

\* One iteration of `for run_type, proc_args in proces_arguments.items()`.
AppendEntry ==
    /\ jpc = "loop"
    /\ Len(references) < Len(proces_arguments)
    /\ LET entry == proces_arguments[Len(references) + 1]
       IN /\ references' = Append(references, reference_of(todays_date, entry[1]))
          /\ data' = Append(data, entry[2])
    /\ UNCHANGED <<qvars, tvars, hvars, clock, jpc, todays_date, queue, runs,
                   invoked>>

\* items = [{"reference": ref, "data": d} for ref, d in zip(references,
\* data, strict=True)]; return items
BuildItems ==
    /\ jpc = "loop"
    /\ Len(references) = Len(proces_arguments)
    /\ Len(references) = Len(data)
    /\ queue' = [i \in 1..Len(references) |->
                   [reference |-> references[i], data |-> data[i]]]
    /\ runs' = [runs EXCEPT ![Len(runs)].references = references,
                            ![Len(runs)].returned = TRUE]
    /\ invoked' = NoCall
    /\ jpc' = "queued"
    /\ UNCHANGED <<qvars, tvars, hvars, clock, todays_date, references, data>>

\* The object None, which no value of the table equals.
None == "<None>"

\* dict.get(key)
get(d, key) == IF key \in DOMAIN d THEN d[key] ELSE None

\* process_item(item_data, item_reference) for an item of the queue: the
\* call it makes, with its keyword arguments.
ProcessItem(i) ==
    /\ jpc = "queued"
    /\ LET item_data == queue[i].data
           item_reference == queue[i].reference
           process == get(item_data, "process")
           base_url == get(item_data, "baseUrl")
           case_type == get(item_data, "caseType")
       IN /\ item_data # <<>> /\ item_reference # <<>>
          /\ process \in {"taxonomy", "term"}
          /\ invoked' =
               IF process = "taxonomy"
               THEN [item_reference |-> item_reference,
                     function |-> "get_taxononmy",
                     case_type |-> case_type,
                     view_id |-> get(item_data, "viewData"),
                     base_url |-> base_url]
               ELSE [item_reference |-> item_reference,
                     function |-> "pull_term_data_from_go_to_sql",
                     base_url |-> base_url,
                     case_type |-> case_type,
                     start_term_id |-> get(item_data, "startTermId"),
                     sql_stored_procedure |-> get(item_data, "storedProcedure"),
                     term_set_uuid |-> get(item_data, "termSetUuid")]
    /\ UNCHANGED <<qvars, tvars, hvars, clock, jpc, todays_date, references,
                   data, queue, runs>>

\* The next run of retrieve_items_for_queue begins.
NextRun ==
    /\ jpc = "queued"
    /\ Len(runs) < MaxRuns
    /\ jpc' = "start"
    /\ UNCHANGED <<qvars, tvars, hvars, clock, todays_date, references, data,
                   queue, runs, invoked>>

JobsNext ==
    \/ Tick
    \/ ReadDate
    \/ AppendEntry
    \/ BuildItems
    \/ \E i \in 1..Len(queue) : ProcessItem(i)
    \/ NextRun

SpecJobs == JobsInit /\ [][JobsNext]_vars



(***************************************************************************)
(* Properties of concurrent_add                                            *)
(***************************************************************************)
InFlight == {i \in Tasks : call[i] = "running"}
Terminal(i) == state[i] \in {"Succeeded", "Failed"}
Waiting == {i \in Tasks : InWaiters(i)}

RECURSIVE Doubled(_, _)
Doubled(x, n) == IF n = 0 THEN x ELSE Doubled(x + x, n - 1)

\* C1: in every reachable state the number of workqueue.add_item calls that
\* have started and not yet returned is at most MAX_CONCURRENCY.
C1_ConcurrencyBound == Cardinality(InFlight) <= MAX_CONCURRENCY

\* As many calls in flight as permits, with a further task kept waiting.
C1_Witness ==
    /\ MAX_CONCURRENCY = 2
    /\ Cardinality(InFlight) = 2
    /\ Waiting # {}

\* C2 (as claimed): no task holds a permit while it sleeps in backoff.
C2_NoPermitWhileSleeping ==
    \A i \in Tasks : state[i] = "Retrying" => ~holds[i]

\* C3: the delay computed on failed attempt a is RETRY_BASE_DELAY * 2^(a-1)
\* and is slept before attempt a+1 (so the delay last slept before attempt
\* a >= 2 is RETRY_BASE_DELAY * 2^(a-2)); a task sleeps only with attempts
\* left, so nothing is slept after the last failed attempt; and no task
\* makes more than MAX_RETRIES calls.
C3_BackoffSchedule ==
    \A i \in Tasks :
        /\ attempt[i] <= MAX_RETRIES
        /\ state[i] = "Retrying" =>
              /\ attempt[i] < MAX_RETRIES
              /\ backoff[i] = Doubled(RETRY_BASE_DELAY, attempt[i] - 1)
        /\ state[i] # "Retrying" =>
              backoff[i] = IF attempt[i] >= 2
                           THEN Doubled(RETRY_BASE_DELAY, attempt[i] - 2)
                           ELSE 0

\* One task failed twice, slept d and then 2d, and succeeded on its third
\* attempt; another failed three times and never slept after the last.
C3_Witness ==
    /\ RETRY_BASE_DELAY = 2
    /\ MAX_RETRIES = 3
    /\ \E i \in Tasks :
          state[i] = "Succeeded" /\ attempt[i] = 3 /\ backoff[i] = 4
    /\ \E i \in Tasks :
          state[i] = "Failed" /\ attempt[i] = 3 /\ backoff[i] = 4

C5_StateMachine ==
    [][\A i \in Tasks :
          /\ state'[i] # state[i] =>
                <<state[i], state'[i]>> \in
                    {<<"Pending", "Attempting">>, <<"Attempting", "Succeeded">>,
                     <<"Attempting", "Retrying">>, <<"Retrying", "Attempting">>,
                     <<"Attempting", "Failed">>}
          /\ Terminal(i) =>
                /\ state'[i] = state[i]
                /\ attempt'[i] = attempt[i]
                /\ call'[i] = call[i]
                /\ call[i] = "idle"
          /\ (call[i] = "returned"
              /\ <<state'[i], attempt'[i], call'[i]>> # <<state[i], attempt[i], call[i]>>) =>
                state'[i] = "Succeeded" /\ attempt'[i] = attempt[i]
          /\ (state'[i] = "Succeeded" /\ state[i] # "Succeeded") =>
                call[i] = "returned"]_vars

\* A task that succeeded on its second attempt, after one retry.
C5_Witness ==
    \E i \in Tasks :
        /\ state[i] = "Succeeded" /\ attempt[i] = 2
        /\ \E j \in Tasks : state[j] = "Failed"

\* C6: under fair scheduling concurrent_add terminates with every task
\* Succeeded or Failed, and every Failed one has had all its MAX_RETRIES
\* attempts: a task that exhausts its retries cancels no other.
C6_Termination ==
    <>[](/\ main = "done"
         /\ \A i \in Tasks :
               \/ state[i] = "Succeeded"
               \/ state[i] = "Failed" /\ attempt[i] = MAX_RETRIES)

\* A finished run in which the first task exhausted its retries and a
\* task that had to wait for its permit succeeded afterwards.
C6_Witness ==
    /\ main = "done"
    /\ MAX_CONCURRENCY = 1
    /\ MAX_RETRIES = 2
    /\ Len(items) = 2
    /\ state[1] = "Failed"
    /\ state[2] = "Succeeded"

\* C7: the summary is computed only after every task is Succeeded or
\* Failed, and it holds the number of Succeeded tasks, the number of Failed
\* tasks and the number of input items, the first two adding up to the third.
C7_Aggregate ==
    summary # NoSummary =>
        /\ \A i \in Tasks : Terminal(i)
        /\ summary[1] = Cardinality({i \in Tasks : state[i] = "Succeeded"})
        /\ summary[2] = Cardinality({i \in Tasks : state[i] = "Failed"})
        /\ summary[3] = Len(items)
        /\ summary[1] + summary[2] = summary[3]

\* A finished run of three items, two succeeded and one failed.
C7_Witness ==
    /\ main = "done"
    /\ summary = <<2, 1, 3>>

\* C8 (as claimed): an empty batch returns the aggregate {0,0,0}.
C8_EmptyReturnsZeroAggregate ==
    (items = <<>> /\ main = "done") =>
        /\ summary = <<0, 0, 0>>
        /\ sem = MAX_CONCURRENCY

\* C8 (amended): an empty batch returns in one step, with no task created
\* (so no add_item call), no permit taken and no summary computed or logged.
C8_EmptyIsNoOp ==
    /\ [](items = <<>> =>
             /\ main \in {"start", "done"}
             /\ summary = NoSummary
             /\ sem = MAX_CONCURRENCY
             /\ sorted_items = <<>>
             /\ InFlight = {})
    /\ [][(items = <<>> /\ main = "start") => main' = "done"]_vars

C8_Witness ==
    /\ items = <<>>
    /\ main = "done"
    /\ MAX_CONCURRENCY = 2


Rotated(seq) == IF seq = <<>> THEN seq ELSE Tail(seq) \o <<Head(seq)>>
FirstTwoSwapped(seq) ==
    IF Len(seq) < 2 THEN seq
    ELSE <<seq[2], seq[1]>> \o SubSeq(seq, 3, Len(seq))
FirstReinserted(seq) ==
    IF seq = <<>> THEN seq ELSE <<Reinserted(Head(seq))>> \o Tail(seq)
\* Task i has its permit and has made, or is about to make, its first attempt.
HasAcquired(i) == state[i] # "Pending" \/ holds[i]

\* C9: create_sort_key gives an item and the same item with its keys
\* inserted in another order the same string; sorted_items holds the input
\* items in ascending order of create_sort_key, and its keys are those that
\* the same batch gives when rotated, with its first two items swapped, or
\* with an item's keys re-inserted (Init ranges over every input order, and
\* these generate all of them); and the tasks take their permits and start
\* their first add_item call in the order of sorted_items.
C9_DeterministicOrder ==
    /\ main = "start" =>
          \A k \in 1..Len(items) :
              create_sort_key(Reinserted(items[k])) = create_sort_key(items[k])
    /\ (main = "gather" /\ \A i \in Tasks : ~Started(i)) =>
          /\ Len(sorted_items) = Len(items)
          /\ {sorted_items[i] : i \in Tasks} = {items[i] : i \in Tasks}
          /\ \A i, j \in Tasks :
                i < j => StrLess(create_sort_key(sorted_items[i]),
                                 create_sort_key(sorted_items[j]))
          /\ KeysOf(sorted_items) = KeysOf(sorted(Rotated(items)))
          /\ KeysOf(sorted_items) = KeysOf(sorted(FirstTwoSwapped(items)))
          /\ KeysOf(sorted_items) = KeysOf(sorted(FirstReinserted(items)))
    /\ \A i, j \in Tasks :
          i < j => /\ HasAcquired(j) => HasAcquired(i)
                   /\ attempt[j] >= 1 => attempt[i] >= 1

\* A batch given out of order, one item with its keys inserted in the
\* opposite order: the first task of the sorted order has its permit and is
\* calling add_item while the second waits.
C9_Witness ==
    /\ Len(items) = 2
    /\ items # sorted_items
    /\ items[1] = Reinserted(Item(1))
    /\ MAX_CONCURRENCY = 1
    /\ main = "gather"
    /\ call[1] = "running"
    /\ Waiting = {2}

(***************************************************************************)
(* Properties of get_taxononmy's fetch loop                                *)
(***************************************************************************)
RECURSIVE RowsOf(_)
RowsOf(pages) ==
    IF pages = <<>> THEN <<>>
    ELSE (IF "Row" \in Head(pages).keys THEN Head(pages).Row ELSE <<>>)
         \o RowsOf(Tail(pages))

\* C10: a page without NextHref is the last one requested, whatever rows it
\* carries; the first request is for the initial URL and every later one is
\* for the cursor of the page before it, one request per cursor and in
\* order; the rows collected are the pages' Row lists concatenated in page
\* order.
C10_Pagination ==
    /\ \A k \in 1..Len(responses) :
          "NextHref" \notin responses[k].keys => Len(requests) = k
    /\ Len(requests) >= 1 => requests[1] = full_url
    /\ \A k \in 2..Len(requests) :
          /\ "NextHref" \in responses[k - 1].keys
          /\ requests[k] = Url(responses[k - 1].NextHref)
    /\ Len(responses) <= Len(requests)
    /\ tpc \in {"loop", "insert", "done"} =>
          /\ Len(requests) = Len(responses)
          /\ (next_url # NoUrl /\ responses # <<>>) =>
                next_url = Url(responses[Len(responses)].NextHref)
          /\ (Len(responses) >= 1 /\ "NextHref" \in responses[Len(responses)].keys) =>
                next_url # NoUrl
    /\ all_rows = RowsOf(responses)

\* Three pages fetched: a short first page and an empty second page, both
\* with NextHref, then a full page without NextHref, which ended the loop.
C10_Witness ==
    /\ tpc = "done"
    /\ Len(requests) = 3
    /\ Len(responses[1].Row) = 1
    /\ "Row" \in responses[2].keys /\ responses[2].Row = <<>>
    /\ Len(responses[3].Row) = MaxRows
    /\ Len(all_rows) = 1 + MaxRows

\* C11: when the request for a page fails, or a key is missing from
\* `credentials`, get_taxononmy ends without raising: an except clause
\* handles the error, no row is passed to the stored procedure, and from
\* then on no page is requested (the failed page is requested once).
C11_FetchErrorAborts ==
    /\ [](tpc # "raised")
    /\ [](~(CredentialKeys \subseteq credentials) => tpc # "done")
    /\ [](tpc = "aborted" => inserted = <<>>)
    /\ [][tpc = "aborted" => requests' = requests /\ inserted' = inserted]_vars

(***************************************************************************)
(* Properties of the term tree: what the remote holds, stated on the       *)
(* hierarchy itself                                                        *)
(***************************************************************************)
IsPrefix(a, b) == Len(a) <= Len(b) /\ a = SubSeq(b, 1, Len(a))

NamedWithId(rec) ==
    /\ "Nm" \in DOMAIN rec /\ rec.Nm # <<>>
    /\ "Id" \in DOMAIN rec /\ rec.Id # <<>>

DeclaresChildren(rec) == "Cc" \in DOMAIN rec /\ rec.Cc > 0

\* Every record the remote holds for term p, in the order of the API.
AllRecords(h, p) ==
    [r \in 1..Len(RemoteChildren(h, p)) |-> Record(h, RemoteChildren(h, p)[r])]

\* The guids with an answer that carried content.
Answered ==
    IF \/ outstanding > 0
       \/ hpc = "raised"
       \/ hpc = "done" /\ tree = NoTree /\ posts # <<>>
    THEN SubSeq(posts, 1, Len(posts) - 1)
    ELSE posts

Posted(guid) == \E k \in 1..Len(posts) : posts[k] = guid

\* The tree was built: every fetch succeeded.
Built == hpc = "insert" \/ (hpc = "done" /\ tree # NoTree)

\* C12: a fetch that fails or carries no content, for the start term or for
\* a term below it, raises nothing; every record with children that an
\* answer listed is still asked for, and every record that an answer listed
\* with a name and an id is passed to the stored procedure.
C12_FetchFailureNonFatal ==
    /\ hpc # "raised"
    /\ hpc = "done" =>
          \A k \in 1..Len(Answered) :
             \A r \in 1..Len(Content(hierarchy, Answered[k])) :
                LET rec == Content(hierarchy, Answered[k])[r]
                IN NamedWithId(rec) =>
                      /\ DeclaresChildren(rec) => Posted(rec.Id)
                      /\ \E e \in 1..Len(executed) : executed[e].uuid = rec.Id

\* C13: the children a call of _get_child_terms works on are all the
\* children the remote holds for its term, also when they are more than
\* one page holds.
C13_AllPagesFetched ==
    \A k \in 1..Len(stack) :
       stack[k].pc = "loop" =>
          stack[k].content = AllRecords(hierarchy, NodeOf(stack[k].parent_uuid))

\* The requests of a depth-first walk from `guid`: one for the term, then,
\* per listed record with a name, an id and a child count above zero, in
\* the order listed, all requests of its subtree.
RECURSIVE RequestOrder(_, _)
RequestOrder(h, guid) ==
    <<guid>> \o
    Concat([r \in 1..Len(Content(h, guid)) |->
              IF NamedWithId(Content(h, guid)[r])
                 /\ DeclaresChildren(Content(h, guid)[r])
              THEN RequestOrder(h, Content(h, guid)[r].Id)
              ELSE <<>>])

\* C14: with every fetch succeeding, at most one request is outstanding, a
\* request leaves only when none is outstanding, and the requests posted
\* are, in order, those of the depth-first walk: one for the start term and
\* one per accepted record with a child count above zero, the requests of a
\* record's subtree all before the request of its next sibling.
C14_DepthFirstSequential ==
    /\ [](outstanding <= 1)
    /\ [](hpc # "idle" => IsPrefix(posts, RequestOrder(hierarchy, start_term_id)))
    /\ [](Built => posts = RequestOrder(hierarchy, start_term_id))
    /\ [][posts' # posts => outstanding = 0 /\ outstanding' = 1]_vars

\* Terms 1 and 2 under the start term, 3 under 1 and 4 under 2: the
\* request for 2 follows the answer for 1.
C14_Witness ==
    /\ hpc = "insert"
    /\ hierarchy.parent = <<0, 0, 1, 2>>
    /\ hierarchy.odd = 0
    /\ posts = <<TermId(0), TermId(1), TermId(2)>>

\* The tree the remote holds below term p: a node per record with a name
\* and an id, in the order of the API, its children resolved when the
\* record declares a child count above zero.
RECURSIVE RemoteTree(_, _)
RemoteTree(h, p) ==
    Concat([r \in 1..Len(AllRecords(h, p)) |->
              LET rec == AllRecords(h, p)[r]
                  node == [Name |-> rec.Nm, Id |-> rec.Id, ParentId |-> TermId(p)]
              IN IF ~NamedWithId(rec) THEN <<>>
                 ELSE IF DeclaresChildren(rec)
                 THEN <<node @@ ("Children" :> RemoteTree(h, NodeOf(rec.Id)))>>
                 ELSE <<node>>])

\* C15: with every fetch succeeding, the tree returned is the remote's tree
\* below the start term: the same nodes, each once, with the same names,
\* ids and parents, the children in the order of the API.
C15_TreeMatchesRemote ==
    Built => tree = [Id |-> start_term_id, Children |-> RemoteTree(hierarchy, 0)]

\* The same, for a remote whose terms have at most one page of children.
FitsOnePage(h) == \A p \in 0..Len(h.parent) : Len(RemoteChildren(h, p)) <= PageLimit

TreeMatchesRemoteWithinOnePage ==
    (Built /\ FitsOnePage(hierarchy)) =>
       tree = [Id |-> start_term_id, Children |-> RemoteTree(hierarchy, 0)]

\* The nodes of a tree in pre-order: the node, then its children's subtrees
\* in the order of its Children.
RECURSIVE PreOrder(_)
PreOrder(node) ==
    <<node>> \o
    (IF "Children" \in DOMAIN node
     THEN Concat([c \in 1..Len(node.Children) |-> PreOrder(node.Children[c])])
     ELSE <<>>)

\* What a call for a node carries: its name, id and parent id, each as
\* text ("None" for a key the node has not), and the term-set id.
ParamsOf(node) ==
    [name |-> IF "Name" \in DOMAIN node THEN node.Name ELSE str_None,
     uuid |-> IF "Id" \in DOMAIN node THEN node.Id ELSE str_None,
     parent_uuid |-> IF "ParentId" \in DOMAIN node THEN node.ParentId ELSE str_None,
     term_set_uuid |-> term_set_uuid]

ExpectedCalls(t) == [c \in 1..Len(PreOrder(t)) |-> ParamsOf(PreOrder(t)[c])]

\* C16: the calls of the stored procedure follow the pre-order of the built
\* tree, root included: they are always the first calls of that order and,
\* when the walk ends, exactly one per node.
C16_PreOrderUpserts ==
    Built => /\ IsPrefix(executed, ExpectedCalls(tree))
             /\ hpc = "done" => executed = ExpectedCalls(tree)

\* The tree of the round trip: two children, the first with two
\* grandchildren; the root's call carries "None" as name and parent.
C16_Witness ==
    /\ hpc = "done"
    /\ hierarchy.parent = <<0, 1, 1, 0>>
    /\ hierarchy.odd = 0
    /\ ~hierarchy.falling
    /\ Len(executed) = 5
    /\ executed[1].name = str_None /\ executed[1].uuid = start_term_id
    /\ executed[2].uuid = TermId(1) /\ executed[3].uuid = TermId(2)
    /\ executed[4].uuid = TermId(3) /\ executed[4].parent_uuid = TermId(1)
    /\ executed[5].uuid = TermId(4) /\ executed[5].parent_uuid = start_term_id

(***************************************************************************)
(* Properties of the two insert loops                                      *)
(***************************************************************************)
CallsFor(uuid) == {e \in 1..Len(executed) : executed[e].uuid = uuid}

\* C17: whatever the stored procedure reports for a record, the walk goes
\* on: a call that leaves rows or nodes unvisited is followed by further
\* calls, and at the end every row of all_rows and every node of the tree
\* has received exactly one call, failed ones included.
C17_UpsertFailureIsolated ==
    /\ [](tpc \in {"insert", "done"} => IsPrefix(inserted, all_rows))
    /\ [](tpc = "done" => inserted = all_rows /\ Len(insert_results) = Len(all_rows))
    /\ [](Built => Len(executed_ok) = Len(executed))
    /\ []((hpc = "done" /\ tree # NoTree) =>
            /\ Len(executed) = Len(PreOrder(tree))
            /\ \A n \in 1..Len(PreOrder(tree)) :
                  Cardinality(CallsFor(PreOrder(tree)[n].Id)) = 1)
    /\ [][(insert_results' # insert_results /\ Len(inserted') < Len(all_rows))
            => tpc' = "insert"]_vars
    /\ [][(executed_ok' # executed_ok /\ hpc' = "done")
            => Len(executed') = Len(PreOrder(tree))]_vars

\* A tree of three nodes whose middle node's call reported failure: all
\* three were visited and the other two calls succeeded.
C17_Witness ==
    /\ hpc = "done"
    /\ Len(PreOrder(tree)) = 3
    /\ Len(executed) = 3
    /\ executed_ok = <<TRUE, FALSE, TRUE>>

\* Rows of which one in the middle reported failure: all were passed on.
RowFailureVisited ==
    /\ tpc = "done"
    /\ Len(all_rows) >= 3
    /\ inserted = all_rows
    /\ insert_results[1] /\ ~insert_results[2] /\ insert_results[3]

(***************************************************************************)
(* Properties of the work items and of the arguments passed on             *)
(***************************************************************************)
Returned == {r \in 1..Len(runs) : runs[r].returned}

\* C18: a run returns one item per entry of the table, in its order, the
\* reference being the ISO date of the run's day, "_" and the entry's name,
\* the data being the entry's descriptor; the references of a run differ
\* pairwise; two runs on the same day return the same set of references.
C18_OneItemPerEntry ==
    /\ \A r \in Returned :
          /\ Len(runs[r].references) = Len(proces_arguments)
          /\ \A i \in 1..Len(proces_arguments) :
                runs[r].references[i] =
                   isoformat(runs[r].day) \o <<95>> \o proces_arguments[i][1]
          /\ \A i, j \in 1..Len(runs[r].references) :
                i # j => runs[r].references[i] # runs[r].references[j]
    /\ \A r1, r2 \in Returned :
          runs[r1].day = runs[r2].day =>
             {runs[r1].references[i] : i \in 1..Len(runs[r1].references)} =
             {runs[r2].references[i] : i \in 1..Len(runs[r2].references)}
    /\ jpc = "queued" =>
          /\ Len(queue) = Len(proces_arguments)
          /\ \A i \in 1..Len(queue) :
                /\ queue[i].reference = runs[Len(runs)].references[i]
                /\ queue[i].data = proces_arguments[i][2]

\* Every run was made, two of them on the same day, and the last has
\* returned its five items.
C18_Witness ==
    /\ jpc = "queued"
    /\ Len(runs) = MaxRuns
    /\ \E r1, r2 \in Returned : r1 # r2 /\ runs[r1].day = runs[r2].day
    /\ Len(queue) = 5
    /\ queue[5].reference = isoformat(runs[Len(runs)].day) \o <<95>> \o go_pull_term_data_departments

\* The entry of the table an item reference belongs to.
EntryOf(item_reference) ==
    CHOOSE e \in 1..Len(proces_arguments) :
       \E d \in 1..MaxDays :
          item_reference = isoformat(d) \o <<95>> \o proces_arguments[e][1]

\* C19: the view id passed to get_taxononmy is the viewId of the item's
\* entry in the table; the stored-procedure name, start-term id and
\* term-set id passed to pull_term_data_from_go_to_sql are those of the
\* entry.
C19_ArgumentsFromDescriptor ==
    invoked # NoCall =>
       LET descriptor == proces_arguments[EntryOf(invoked.item_reference)][2]
       IN IF descriptor.process = "taxonomy"
          THEN /\ invoked.function = "get_taxononmy"
               /\ invoked.view_id = descriptor.viewId
          ELSE /\ invoked.function = "pull_term_data_from_go_to_sql"
               /\ invoked.sql_stored_procedure = descriptor.storedProcedure
               /\ invoked.start_term_id = descriptor.startTermId
               /\ invoked.term_set_uuid = descriptor.termSetUuid

\* The same for the hierarchical pulls alone.
TermArgumentsFromDescriptor ==
    (invoked # NoCall /\ invoked.function = "pull_term_data_from_go_to_sql") =>
       LET descriptor == proces_arguments[EntryOf(invoked.item_reference)][2]
       IN /\ descriptor.process = "term"
          /\ invoked.sql_stored_procedure = descriptor.storedProcedure
          /\ invoked.start_term_id = descriptor.startTermId
          /\ invoked.term_set_uuid = descriptor.termSetUuid

(***************************************************************************)
(* Properties of the permit pool                                           *)
(***************************************************************************)
Holders == {i \in Tasks : holds[i]}

\* C20: the permits held by items and the permits available always add up
\* to MAX_CONCURRENCY; an item takes a permit once, before its first
\* attempt, and gives it back exactly when it ends, Succeeded or Failed; no
\* ended item holds one, and when concurrent_add returns every permit is
\* available again.
C20_PermitConservation ==
    /\ [](Cardinality(Holders) + sem = MAX_CONCURRENCY)
    /\ [](sem \in 0..MAX_CONCURRENCY)
    /\ [](\A i \in Tasks : Terminal(i) => ~holds[i])
    /\ [](\A i \in Tasks : state[i] \in {"Attempting", "Retrying"} => holds[i])
    /\ [](main = "done" => sem = MAX_CONCURRENCY /\ Holders = {} /\ waiters = <<>>)
    /\ [][\A i \in Tasks :
            /\ (~holds[i] /\ holds'[i]) => (state[i] = "Pending" /\ attempt[i] = 0)
            /\ (holds[i] /\ ~holds'[i]) => (~Terminal(i) /\ Terminal(i)')]_vars

\* concurrent_add has returned after three items shared two permits, one
\* ending Succeeded and one Failed: both permits are available.
C20_Witness ==
    /\ main = "done"
    /\ Len(items) = 3
    /\ MAX_CONCURRENCY = 2
    /\ sem = 2
    /\ \E i, j \in Tasks : state[i] = "Succeeded" /\ state[j] = "Failed"

=============================================================================
